---- MODULE Spec2Model ----
(***************************************************************************)
(* Model of the documentation converter of cdk-terrain-docs:               *)
(*   scripts/rename.py   protect -> rename_links -> rename_content ->      *)
(*                       restore, process_file and main                    *)
(*   scripts/convert.py  convert_codetabs, convert_arrow_callouts,         *)
(*                       convert_blockquote_callouts                       *)
(* Documents are TLA+ strings; the text operators below work on them       *)
(* character by character, as Python's str and re do.                      *)
(***************************************************************************)
EXTENDS Integers, Sequences, FiniteSets, TLC

(***************************************************************************)
(* Text primitives (Python str / re semantics).                            *)
(***************************************************************************)

Upper == {"A","B","C","D","E","F","G","H","I","J","K","L","M",
          "N","O","P","Q","R","S","T","U","V","W","X","Y","Z"}

Lower == {"a","b","c","d","e","f","g","h","i","j","k","l","m",
          "n","o","p","q","r","s","t","u","v","w","x","y","z"}

Digit == {"0","1","2","3","4","5","6","7","8","9"}

\* \w of Python's re on ASCII text
WordChar == Upper \cup Lower \cup Digit \cup {"_"}

\* \s of Python's re on ASCII text (the vertical tab, which a TLA+ string
\* cannot hold, left out)
SpaceChar == {" ", "\t", "\n", "\r", "\f"}

\* The grave accent (U+0060) of Markdown code spans and fences.  A TLA+ string
\* literal cannot hold that character, so the model writes it as this one,
\* which is neither a word nor a space character and occurs in no pattern.
BQ == "|"

Min(S) == CHOOSE x \in S : \A y \in S : x <= y

\* s[i-1] with Python's 0-based index written 1-based; "" outside the string
CharAt(s, i) == IF i >= 1 /\ i <= Len(s) THEN SubSeq(s, i, i) ELSE ""

\* s[i:] (1-based)
From(s, i) == SubSeq(s, i, Len(s))

\* s.startswith(lit, i-1); the first characters are compared first
StartsAt(s, i, lit) ==
    /\ i >= 1
    /\ i + Len(lit) - 1 <= Len(s)
    /\ SubSeq(s, i, i) = SubSeq(lit, 1, 1)
    /\ SubSeq(s, i, i + Len(lit) - 1) = lit

\* lit in s
Contains(s, lit) == \E i \in 1..Len(s) : StartsAt(s, i, lit)

\* s.find(lit, from-1) + 1: the first index >= from where lit starts, 0 if none
Find(s, lit, from) ==
    LET c == {i \in from..(Len(s) - Len(lit) + 1) : StartsAt(s, i, lit)}
    IN  IF c = {} THEN 0 ELSE Min(c)

\* s.replace(old, new): leftmost, non-overlapping, every occurrence
RECURSIVE ReplaceFrom(_, _, _, _)
ReplaceFrom(s, from, old, new) ==
    LET p == Find(s, old, from)
    IN  IF p = 0 THEN From(s, from)
        ELSE SubSeq(s, from, p - 1) \o new \o ReplaceFrom(s, p + Len(old), old, new)

Replace(s, old, new) == ReplaceFrom(s, 1, old, new)

\* s.count(lit): non-overlapping occurrences
RECURSIVE CountFrom(_, _, _)
CountFrom(s, from, lit) ==
    LET p == Find(s, lit, from)
    IN  IF p = 0 THEN 0 ELSE 1 + CountFrom(s, p + Len(lit), lit)

Count(s, lit) == CountFrom(s, 1, lit)

\* s.split(sep)
RECURSIVE SplitFrom(_, _, _)
SplitFrom(s, from, sep) ==
    LET p == Find(s, sep, from)
    IN  IF p = 0 THEN <<From(s, from)>>
        ELSE <<SubSeq(s, from, p - 1)>> \o SplitFrom(s, p + Len(sep), sep)

Split(s, sep) == SplitFrom(s, 1, sep)

\* sep.join(parts)
RECURSIVE Join(_, _)
Join(parts, sep) ==
    IF Len(parts) = 0 THEN ""
    ELSE IF Len(parts) = 1 THEN parts[1]
    ELSE parts[1] \o sep \o Join(Tail(parts), sep)

\* "".join(parts)
Concat(parts) == Join(parts, "")

\* line.strip()
RECURSIVE Strip(_)
Strip(line) ==
    IF line = "" THEN ""
    ELSE IF CharAt(line, 1) \in SpaceChar THEN Strip(Tail(line))
    ELSE IF CharAt(line, Len(line)) \in SpaceChar
         THEN Strip(SubSeq(line, 1, Len(line) - 1))
    ELSE line

\* \b between s[i-1] and s[i] (1-based i is the position of the next character)
WordBoundary(s, i) == (CharAt(s, i - 1) \in WordChar) # (CharAt(s, i) \in WordChar)

\* ^ under re.MULTILINE
LineStart(s, i) == i = 1 \/ CharAt(s, i - 1) = "\n"

\* the end of the longest run of characters of class cls starting at i (greedy *)
RECURSIVE RunEnd(_, _, _)
RunEnd(s, i, cls) == IF CharAt(s, i) \in cls THEN RunEnd(s, i + 1, cls) ELSE i

(***************************************************************************)
(* A regular expression of the scripts is a sequence of atoms: an anchor   *)
(* or class written as in the source, anything else a literal.  MatchEnd   *)
(* is the position after the match of atoms[k..] at i, or 0 for no match.  *)
(* The greedy \w* is only ever the last atom, so it never backtracks.      *)
(***************************************************************************)
RECURSIVE MatchEnd(_, _, _, _)
MatchEnd(s, i, atoms, k) ==
    IF k > Len(atoms) THEN i
    ELSE LET a == atoms[k] IN
         CASE a = "\\b"    -> IF WordBoundary(s, i) THEN MatchEnd(s, i, atoms, k + 1) ELSE 0
           [] a = "^"      -> IF LineStart(s, i) THEN MatchEnd(s, i, atoms, k + 1) ELSE 0
           [] a = "(?!_)"  -> IF CharAt(s, i) # "_" THEN MatchEnd(s, i, atoms, k + 1) ELSE 0
           [] a = "[A-Z]"  -> IF CharAt(s, i) \in Upper THEN MatchEnd(s, i + 1, atoms, k + 1) ELSE 0
           [] a = "\\d{4}" -> IF \A j \in 0..3 : CharAt(s, i + j) \in Digit
                              THEN MatchEnd(s, i + 4, atoms, k + 1) ELSE 0
           [] a = "\\w*"   -> MatchEnd(s, RunEnd(s, i, WordChar), atoms, k + 1)
           [] OTHER        -> IF StartsAt(s, i, a)
                              THEN MatchEnd(s, i + Len(a), atoms, k + 1) ELSE 0

\* re.search(atoms, s, pos=from-1).start() + 1, or 0; a pattern of one atom is
\* a literal (no pattern of the scripts is a lone anchor or class)
Search(s, atoms, from) ==
    IF Len(atoms) = 1 THEN Find(s, atoms[1], from)
    ELSE LET c == {i \in from..Len(s) : MatchEnd(s, i, atoms, 1) > 0}
         IN  IF c = {} THEN 0 ELSE Min(c)

\* re.sub(atoms, repl, s) with a string replacement
RECURSIVE SubFrom(_, _, _, _)
SubFrom(s, from, atoms, repl) ==
    LET p == Search(s, atoms, from)
    IN  IF p = 0 THEN From(s, from)
        ELSE SubSeq(s, from, p - 1) \o repl
                \o SubFrom(s, MatchEnd(s, p, atoms, 1), atoms, repl)

Sub(atoms, repl, s) == SubFrom(s, 1, atoms, repl)

\* re.findall(atoms, s)
RECURSIVE FindAllFrom(_, _, _)
FindAllFrom(s, from, atoms) ==
    LET p == Search(s, atoms, from)
    IN  IF p = 0 THEN <<>>
        ELSE LET e == MatchEnd(s, p, atoms, 1)
             IN  <<SubSeq(s, p, e - 1)>> \o FindAllFrom(s, e, atoms)

FindAll(atoms, s) == FindAllFrom(s, 1, atoms)

(***************************************************************************)
(* scripts/rename.py                                                       *)
(***************************************************************************)

DOCS_DIR == "docs"

\* os.path.join(DOCS_DIR, "release")
RELEASE_DIR == DOCS_DIR \o "/" \o "release"

\* Order matters: more specific patterns first.
PROTECTED_PATTERNS ==
    << <<"cdktf.tf.json">>,
       <<"cdktf.json">>,
       <<"cdktf.out">>,
       <<"cdktf.log">>,
       <<"CDKTF_", "[A-Z]", "\\w*">>,
       <<"GITHUB_API_TOKEN_CDKTF">>,
       <<"~/.cdktf">>,
       <<"__cdktf_", "\\w*">>,
       <<"--cdktf-version">>,
       <<"npm_cdktf_cli">>,
       <<"npm_cdktf", "(?!_)">>,
       <<"pypi_cdktf">>,
       <<"mvn_cdktf">>,
       <<"nuget_cdktf">>,
       <<"cdktf_version">>,
       <<"_cdktf_yargs_completions">>,
       <<"github.com/cdktf/">>,
       <<"cdktf-tf-module-stack">>,
       <<"projen-cdktf-hybrid-construct">> >>

\* str(n) for n >= 0
RECURSIVE Decimal(_)
Decimal(n) ==
    IF n < 10 THEN SubSeq("0123456789", n + 1, n + 1)
    ELSE Decimal(n \div 10) \o SubSeq("0123456789", (n % 10) + 1, (n % 10) + 1)

\* f"{n:04d}": zero-padded to at least four digits
RECURSIVE ZeroPad(_, _)
ZeroPad(digits, width) ==
    IF Len(digits) >= width THEN digits ELSE ZeroPad("0" \o digits, width)

\* a sentinel that does not depend on the counter
Sentinel_constant(counter) == "<<PROT_0000>>"

\* f"<<PROT_{counter[0]:04d}>>"
Sentinel(counter) == "<<PROT_" \o ZeroPad(Decimal(counter), 4) \o ">>"

\* replacer without its counter[0] += 1
NextCounter_stuck(counter) == counter

\* counter[0] += 1 in replacer
NextCounter(counter) == counter + 1

\* re.sub(pattern, replacer, content) of protect: every match of one pattern,
\* left to right, becomes a fresh sentinel; replacer appends (sentinel, match)
\* to restorations and advances the counter.  The scan resumes at position
\* from; the result holds the rewritten text from there on.
RECURSIVE ProtectFrom(_, _, _, _, _)
ProtectFrom(s, from, atoms, restorations, counter) ==
    LET p == Search(s, atoms, from)
    IN  IF p = 0
        THEN [content |-> From(s, from), restorations |-> restorations, counter |-> counter]
        ELSE LET e    == MatchEnd(s, p, atoms, 1)
                 sent == Sentinel(counter)
                 rest == ProtectFrom(s, e, atoms,
                                     Append(restorations, <<sent, SubSeq(s, p, e - 1)>>),
                                     NextCounter(counter))
             IN  [content      |-> SubSeq(s, from, p - 1) \o sent \o rest.content,
                  restorations |-> rest.restorations,
                  counter      |-> rest.counter]

\* the loop of protect over PROTECTED_PATTERNS[k..]
RECURSIVE ProtectLoop(_, _, _, _)
ProtectLoop(content, k, restorations, counter) ==
    IF k > Len(PROTECTED_PATTERNS) \/ content = ""
    THEN [content |-> content, restorations |-> restorations]
    ELSE LET r == ProtectFrom(content, 1, PROTECTED_PATTERNS[k], restorations, counter)
         IN  ProtectLoop(r.content, k + 1, r.restorations, r.counter)

\* protect(content) -> (content, restorations)
protect(content) == ProtectLoop(content, 1, <<>>, 0)

\* for sentinel, original in reversed(restorations): content.replace(...)
RECURSIVE RestoreLoop(_, _, _)
RestoreLoop(content, restorations, k) ==
    IF k = 0 \/ content = "" THEN content
    ELSE RestoreLoop(Replace(content, restorations[k][1], restorations[k][2]),
                     restorations, k - 1)

\* restore(content, restorations)
restore(content, restorations) == RestoreLoop(content, restorations, Len(restorations))

\* rename_links: the three rewrites (the review log is ReviewItems below)
rename_links(content) ==
    LET c1 == Sub(<<"](/terraform/cdktf/">>, "](/docs/", content)
        c2 == Replace(c1, "github.com/hashicorp/terraform-cdk",
                          "github.com/open-constructs/cdk-terrain")
    IN  Replace(c2, "hashicorp/terraform-cdk", "open-constructs/cdk-terrain")

\* log_review(filepath, line_num, line, reason): the entry appended
log_review(path, line_num, line, reason) == <<path, line_num, Strip(line), reason>>

\* rename_links' scan: one entry per reason a line is reported for
RECURSIVE ReviewScan(_, _, _)
ReviewScan(path, ls, i) ==
    IF i > Len(ls) THEN <<>>
    ELSE (IF Contains(ls[i], "discuss.hashicorp.com")
          THEN <<log_review(path, i, ls[i], "discuss.hashicorp.com link")>> ELSE <<>>)
         \o (IF Contains(ls[i], "cdk.tf/")
             THEN <<log_review(path, i, ls[i], "cdk.tf shortlink")>> ELSE <<>>)
         \o ReviewScan(path, ls, i + 1)

ReviewItems(content, filepath) == ReviewScan(filepath, Split(content, "\n"), 1)

\* The statements of rename_content in order: <<pattern atoms, replacement>>.
\* A one-atom literal pattern is str.replace; the others are re.sub.
RENAME_RULES ==
    << << <<"hashicorp/terraform-cdk-go/cdktf">>, "open-constructs/cdk-terrain-go/cdktn" >>,
       << <<"com.hashicorp.cdktf">>,        "io.cdktn.cdktn" >>,
       << <<"com.hashicorp:cdktf">>,        "io.cdktn:cdktn" >>,
       << <<"HashiCorp.Cdktf">>,            "Io.Cdktn" >>,
       << <<"from cdktf_cdktf_provider_">>, "from cdktn_provider_" >>,
       << <<"cdktf_cdktf_provider_">>,      "cdktn_provider_" >>,
       << <<"cdktf-cdktf-provider-">>,      "cdktn-provider-" >>,
       << <<"from cdktf import">>,          "from cdktn import" >>,
       << <<"from \"cdktf\"">>,             "from \"cdktn\"" >>,
       << <<"from 'cdktf'">>,               "from 'cdktn'" >>,
       << <<"require(\"cdktf\")">>,         "require(\"cdktn\")" >>,
       << <<"require('cdktf')">>,           "require('cdktn')" >>,
       << <<"@cdktf/provider-">>,           "@cdktn/provider-" >>,
       << <<"@cdktf/aws-cdk">>,             "@cdktn/aws-cdk" >>,
       << <<"@cdktf/">>,                    "@cdktn/" >>,
       << <<"cdktf-cli">>,                  "cdktn-cli" >>,
       << <<"cdktf-construct">>,            "cdktn-construct" >>,
       << <<"ConstructLibraryCdktf">>,      "ConstructLibraryCdktn" >>,
       << <<"cdktfVersion">>,               "cdktnVersion" >>,
       << <<"CDK for Terraform (CDKTF)">>,  "CDK Terrain (CDKTN)" >>,
       << <<"CDK for Terraform">>,          "CDK Terrain" >>,
       << <<"\\b", "CDKTF", "\\b">>,        "CDKTN" >>,
       << <<"\\b", "cdktf.">>,              "cdktn." >>,
       << <<"\"cdktf\"">>,                  "\"cdktn\"" >>,
       << <<"'cdktf'">>,                    "'cdktn'" >>,
       << <<BQ \o "cdktf" \o BQ>>,         BQ \o "cdktn" \o BQ >>,
       << <<"{ cdktf }">>,                  "{ cdktn }" >>,
       << <<BQ \o "cdktf ">>,              BQ \o "cdktn " >>,
       << <<"$ cdktf ">>,                   "$ cdktn " >>,
       << <<"^", "cdktf ">>,                "cdktn " >>,
       << <<"\\b", "cdktf", "\\b">>,        "cdktn" >> >>

\* the bare-word rule applied before the specific ones
RenameGeneralFirst(content) ==
    LET n == Len(RENAME_RULES) IN Sub(RENAME_RULES[n][1], RENAME_RULES[n][2], content)

RECURSIVE RenameLoop(_, _)
RenameLoop(content, k) ==
    IF k > Len(RENAME_RULES) \/ content = "" THEN content
    ELSE RenameLoop(Sub(RENAME_RULES[k][1], RENAME_RULES[k][2], content), k + 1)

\* rename_content with its last, most general statement moved to the front
rename_content_general_first(content) == RenameLoop(RenameGeneralFirst(content), 1)

\* rename_content(content)
rename_content(content) == RenameLoop(content, 1)

\* is_release_file(filepath)
is_release_file(filepath) == Contains(filepath, RELEASE_DIR)

\* r"<<PROT_\d{4}>>"
SentinelShape == <<"<<PROT_", "\\d{4}", ">>">>

\* re.findall(r"<<PROT_\d{4}>>", content)
LeftoverSentinels(content) == FindAll(SentinelShape, content)

\* Step 2 without the release test
content_rewrite_always(content, release) == rename_content(content)

\* Step 2 of process_file after rename_links:
\*   if not release: content = rename_content(content)
content_rewrite(content, release) ==
    IF release THEN content ELSE rename_content(content)

\* the dry-run report of process_file: the number of lines that differ,
\* counted over zip(orig_lines, new_lines)
RECURSIVE DiffCount(_, _, _)
DiffCount(orig_lines, new_lines, k) ==
    IF k > Len(orig_lines) \/ k > Len(new_lines) THEN 0
    ELSE (IF orig_lines[k] # new_lines[k] THEN 1 ELSE 0)
         + DiffCount(orig_lines, new_lines, k + 1)

\* the write of process_file without its dry_run test
WritesBack_always(changed, dry) == changed

\* if changed and not dry_run: open(filepath, "w").write(content)
WritesBack(changed, dry) == changed /\ ~dry

\* process_file(filepath, dry_run) on a file holding `text`: what it computes
process_file(path, text, dry) ==
    LET release == is_release_file(path)
        p       == protect(text)
        linked  == rename_links(p.content)
        renamed == content_rewrite(linked, release)
        final   == restore(renamed, p.restorations)
        changed == final # text
    IN  [content        |-> final,
         review         |-> ReviewItems(linked, path),
         sentinel_check |-> LeftoverSentinels(final),
         write          |-> WritesBack(changed, dry),
         stats          |-> [filepath    |-> path,
                             release     |-> release,
                             changed     |-> changed,
                             protections |-> Len(p.restorations),
                             diff_lines  |-> IF changed /\ dry
                                             THEN DiffCount(Split(text, "\n"),
                                                            Split(final, "\n"), 1)
                                             ELSE 0]]

(***************************************************************************)
(* State.                                                                  *)
(*   rename.py main:  argv, dry_run, fs, pc, files, pos, the three         *)
(*     counters, MANUAL_REVIEW, stdout, writes                             *)
(*   one process_file call, step by step: stage, filepath, original,       *)
(*     content, restorations, run                                          *)
(***************************************************************************)
VARIABLES
    argv,               \* sys.argv[1:] without the -- options
    dry_run,            \* "--dry-run" in sys.argv
    fs,                 \* the file tree: path -> text, for the paths that exist
    pc,                 \* where main is
    files,              \* the list main walks
    pos,                \* index of the next entry of the loop main is in
    changed_count,
    release_count,
    total_protections,
    MANUAL_REVIEW,      \* the module-level review log
    stdout,             \* what main and process_file printed, in order
    writes,             \* the paths opened for writing or renamed, in order
    stage,              \* where process_file is
    filepath,
    original,
    content,
    restorations,
    run,                \* 1: first pass over the document, 2: pass over its output
    tree0,              \* the file tree main started with
    cstage,             \* where the convert.py function under way is
    source,             \* the content it was called with
    lines,              \* content.split("\n")
    idx,                \* index of the line the loop is at
    in_codegroup,
    in_code_block,
    result,
    output              \* the content it returned

mainVars == <<argv, dry_run, fs, pc, files, pos, changed_count, release_count,
              total_protections, stdout, writes, tree0>>

fileVars == <<stage, filepath, original, content, restorations, run>>

convertVars == <<cstage, source, lines, idx, in_codegroup, in_code_block, result,
                 output>>

vars == <<mainVars, fileVars, MANUAL_REVIEW, convertVars>>

\* main is not running
MainIdle ==
    /\ argv = <<>> /\ dry_run = FALSE /\ fs = <<>> /\ pc = "idle" /\ files = <<>>
    /\ pos = 0 /\ changed_count = 0 /\ release_count = 0 /\ total_protections = 0
    /\ stdout = <<>> /\ writes = <<>> /\ tree0 = <<>>

\* no stepwise process_file call is under way
FileIdle ==
    /\ stage = "idle" /\ filepath = "" /\ original = "" /\ content = ""
    /\ restorations = <<>> /\ run = 0

\* no convert.py function is under way
ConvertIdle ==
    /\ cstage = "idle" /\ source = "" /\ lines = <<>> /\ idx = 0
    /\ in_codegroup = FALSE /\ in_code_block = FALSE /\ result = <<>>
    /\ output = ""

(***************************************************************************)
(* Documents.  A document is the concatenation of up to MaxFrags fragments *)
(* of one family: protected forms beside sentinel-shaped text and bare     *)
(* tokens, import lines of the supported languages, or links and brand     *)
(* names.                                                                  *)
(***************************************************************************)
MaxFrags == 3

ProtectFrags ==
    {"<<PROT_0000>>", "<<PROT_0001>>", "cdktf.json", "CDKTF_HOME", "cdktf "}

ImportFrags ==
    {"import com.hashicorp.cdktf.App;\n", "using HashiCorp.Cdktf;\n",
     "from cdktf_cdktf_provider_aws import x\n", "@cdktf/provider-aws\n",
     "CDKTF\n"}

LinkFrags ==
    {"[a](/terraform/cdktf/b) ", "github.com/hashicorp/terraform-cdk ",
     "CDKTF ", "cdktf ", "CDK for Terraform "}

FragFamilies == {ProtectFrags, ImportFrags, LinkFrags}

\* the sequences of 1..n elements of S
SeqsUpTo(S, n) == UNION {[1..k -> S] : k \in 1..n}

Documents == {Concat(fr) : fr \in UNION {SeqsUpTo(F, MaxFrags) : F \in FragFamilies}}

StandardPath == "docs/concepts/providers.mdx"

ReleasePath == "docs/release/upgrade-guide.mdx"

(***************************************************************************)
(* One process_file call, step by step (rename.py lines 253-267).          *)
(***************************************************************************)
FileInit ==
    /\ filepath \in {StandardPath, ReleasePath}
    /\ original \in Documents
    /\ content = original
    /\ restorations = <<>>
    /\ stage = "read"
    /\ run = 1
    /\ MANUAL_REVIEW = <<>>
    /\ MainIdle
    /\ ConvertIdle

\* Step 1: content, restorations = protect(original)
Protect ==
    /\ stage = "read"
    /\ LET p == protect(original)
       IN  /\ content' = p.content
           /\ restorations' = p.restorations
    /\ stage' = "protected"
    /\ UNCHANGED <<filepath, original, run, MANUAL_REVIEW, mainVars, convertVars>>

\* Step 2a: content = rename_links(content, filepath)
RenameLinks ==
    /\ stage = "protected"
    /\ content' = rename_links(content)
    /\ MANUAL_REVIEW' = MANUAL_REVIEW \o ReviewItems(content', filepath)
    /\ stage' = "linked"
    /\ UNCHANGED <<filepath, original, restorations, run, mainVars, convertVars>>

\* Step 2b: if not release: content = rename_content(content)
RenameContent ==
    /\ stage = "linked"
    /\ content' = content_rewrite(content, is_release_file(filepath))
    /\ stage' = "renamed"
    /\ UNCHANGED <<filepath, original, restorations, run, MANUAL_REVIEW, mainVars, convertVars>>

\* Step 3: content = restore(content, restorations)
Restore ==
    /\ stage = "renamed"
    /\ content' = restore(content, restorations)
    /\ stage' = "restored"
    /\ UNCHANGED <<filepath, original, restorations, run, MANUAL_REVIEW, mainVars, convertVars>>

\* restore(protect(d)) with no transform in between
RoundTrip ==
    /\ stage = "protected"
    /\ content' = restore(content, restorations)
    /\ stage' = "roundtrip"
    /\ UNCHANGED <<filepath, original, restorations, run, MANUAL_REVIEW, mainVars, convertVars>>

\* the pipeline run again on its own output
Rerun ==
    /\ stage = "restored"
    /\ run = 1
    /\ original' = content
    /\ restorations' = <<>>
    /\ stage' = "read"
    /\ run' = 2
    /\ UNCHANGED <<filepath, content, MANUAL_REVIEW, mainVars, convertVars>>

FileNext == Protect \/ RenameLinks \/ RenameContent \/ Restore \/ RoundTrip \/ Rerun

FileSpec == FileInit /\ [][FileNext]_vars

(***************************************************************************)
(* main of rename.py (lines 305-399).  stdout holds one tuple per printed  *)
(* line, its first field the fixed text of the line; writes holds one      *)
(* tuple per open(..., "w") and per os.rename.                             *)
(***************************************************************************)
MaxArgs == 2

MissingPath == "docs/missing.mdx"

ArchOld == "docs/concepts/cdktf-architecture.mdx"

ArchNew == "docs/concepts/cdktn-architecture.mdx"

docs_json_path == "docs.json"

\* file_renames, in insertion order
file_renames ==
    << <<"images/cdktf-app-architecture.png",   "images/cdktn-app-architecture.png">>,
       <<"images/cdktf-terraform-workflow.png", "images/cdktn-terraform-workflow.png">>,
       <<"images/cdktf-terraform.png",          "images/cdktn-terraform.png">>,
       <<ArchOld,                               ArchNew>> >>

\* the .mdx paths under DOCS_DIR of the trees below, in sorted order
MdxOrder == <<ArchOld, ArchNew, StandardPath, ReleasePath>>

\* sorted(glob.glob(os.path.join(DOCS_DIR, "**", "*.mdx"), recursive=True))
glob(tree) == SelectSeq(MdxOrder, LAMBDA p : p \in DOMAIN tree)

\* os.path.exists(path)
exists(tree, path) == path \in DOMAIN tree

\* open(path, "w").write(text)
write_file(tree, path, text) ==
    [p \in DOMAIN tree \cup {path} |-> IF p = path THEN text ELSE tree[p]]

\* os.rename(old_path, new_path): new_path is replaced when it exists
rename_file(tree, old_path, new_path) ==
    [p \in (DOMAIN tree \ {old_path}) \cup {new_path} |->
        IF p = new_path THEN tree[old_path] ELSE tree[p]]

\* o[:n]
Prefix(o, n) == IF Len(o) <= n THEN o ELSE SubSeq(o, 1, n)

\* the dry-run report of process_file (lines 287-299): two printed lines for
\* each of the first 10 changed lines, then the count of the others
RECURSIVE DiffReport(_, _, _, _)
DiffReport(orig_lines, new_lines, k, diffs) ==
    IF k > Len(orig_lines) \/ k > Len(new_lines)
    THEN (IF diffs > 10 THEN << <<"... and more changed lines", diffs - 10>> >> ELSE <<>>)
    ELSE IF orig_lines[k] # new_lines[k]
         THEN (IF diffs + 1 <= 10
               THEN << <<"L", k, Prefix(orig_lines[k], 100)>>,
                       <<"->", Prefix(new_lines[k], 100)>> >>
               ELSE <<>>)
              \o DiffReport(orig_lines, new_lines, k + 1, diffs + 1)
         ELSE DiffReport(orig_lines, new_lines, k + 1, diffs)

\* process_file without its report of leftover sentinels
SentinelReport_silent(path, sentinel_check) == <<>>

\* if sentinel_check: print(f"  ERROR: Leftover sentinels in {filepath}: ...")
SentinelReport(path, sentinel_check) ==
    IF sentinel_check # <<>>
    THEN << <<"ERROR: Leftover sentinels in", path, sentinel_check>> >>
    ELSE <<>>

\* the manual review block of the summary (lines 352-356)
RECURSIVE ReviewReport(_, _)
ReviewReport(review, k) ==
    IF k > Len(review) THEN <<>>
    ELSE << <<"review", review[k][1], review[k][2], review[k][4]>>,
            <<Prefix(review[k][3], 120)>> >>
         \o ReviewReport(review, k + 1)

\* the documents of the trees main runs on
ChangedDoc == "[a](/terraform/cdktf/b) CDKTF cdk.tf/x\n"

LeftoverDoc == "<<PROT_0001>> cdktf.json\n"

ConvertedDoc == "cdktn deploy\n"

MainDocs == {ChangedDoc, LeftoverDoc, ConvertedDoc}

DocsJsonOld == "\"docs/concepts/cdktf-architecture\""

DocsJsonNew == "\"docs/concepts/cdktn-architecture\""

\* companion files: none; all before the rename; all after it; a mixed tree
\* where an old file stands beside its new name
BareTree == {}

FreshTree ==
    {<<file_renames[k][1], "old">> : k \in 1..3}
        \cup {<<ArchOld, "cdktf deploy\n">>, <<docs_json_path, DocsJsonOld>>}

RenamedTree ==
    {<<file_renames[k][2], "new">> : k \in 1..3}
        \cup {<<ArchNew, "cdktn deploy\n">>, <<docs_json_path, DocsJsonNew>>}

MixedTree ==
    {<<file_renames[1][1], "old">>, <<file_renames[2][2], "new">>,
     <<ArchOld, "cdktf deploy\n">>, <<ArchNew, "cdktn deploy\n">>,
     <<docs_json_path, DocsJsonOld>>}

CompanionTrees == {BareTree, FreshTree, RenamedTree, MixedTree}

\* at most one document of S at path
OptionalDoc(path, S) == {{}} \cup {{<<path, d>>} : d \in S}

TreeOf(pairs) ==
    [p \in {x[1] : x \in pairs} |-> (CHOOSE x \in pairs : x[1] = p)[2]]

Trees ==
    {TreeOf(a \cup b \cup c) : a \in OptionalDoc(StandardPath, MainDocs),
                                b \in OptionalDoc(ReleasePath, MainDocs),
                                c \in CompanionTrees}

ArgPaths == {StandardPath, ReleasePath, MissingPath}

Init ==
    /\ dry_run \in BOOLEAN
    /\ argv \in {<<>>} \cup SeqsUpTo(ArgPaths, MaxArgs)
    /\ fs \in Trees
    /\ tree0 = fs
    /\ pc = "start"
    /\ files = <<>>
    /\ pos = 0
    /\ changed_count = 0 /\ release_count = 0 /\ total_protections = 0
    /\ stdout = <<>>
    /\ writes = <<>>
    /\ MANUAL_REVIEW = <<>>
    /\ FileIdle
    /\ ConvertIdle

\* lines 306-325: the file list, "No files found." or the header
Start ==
    /\ pc = "start"
    /\ files' = IF argv # <<>> THEN argv ELSE glob(fs)
    /\ IF files' = <<>>
       THEN /\ stdout' = Append(stdout, <<"No files found.">>)
            /\ pc' = "done"
            /\ pos' = pos
       ELSE /\ stdout' = Append(stdout,
                            <<IF dry_run THEN "DRY RUN" ELSE "RENAMING", Len(files')>>)
            /\ pc' = "loop"
            /\ pos' = 1
    /\ UNCHANGED <<argv, dry_run, fs, tree0, changed_count, release_count,
                   total_protections, writes, MANUAL_REVIEW, fileVars, convertVars>>

\* lines 327-330: a listed file that does not exist
SkipMissing ==
    /\ pc = "loop"
    /\ pos <= Len(files)
    /\ ~exists(fs, files[pos])
    /\ stdout' = Append(stdout, <<"MISSING", files[pos]>>)
    /\ pos' = pos + 1
    /\ UNCHANGED <<argv, dry_run, fs, tree0, pc, files, changed_count, release_count,
                   total_protections, writes, MANUAL_REVIEW, fileVars, convertVars>>

\* lines 332-343: one file through process_file
ProcessFile ==
    /\ pc = "loop"
    /\ pos <= Len(files)
    /\ exists(fs, files[pos])
    /\ \E path \in {files[pos]} : \E r \in {process_file(path, fs[path], dry_run)} :
           /\ stdout' = stdout
                \o << <<"Processing", path,
                        IF is_release_file(path) THEN " [release: links only]" ELSE "">> >>
                \o SentinelReport(path, r.sentinel_check)
                \o (IF r.stats.changed /\ dry_run
                    THEN DiffReport(Split(fs[path], "\n"), Split(r.content, "\n"), 1, 0)
                    ELSE <<>>)
           /\ fs' = IF r.write THEN write_file(fs, path, r.content) ELSE fs
           /\ writes' = IF r.write
                        THEN Append(writes, <<"write", path, fs[path], r.content>>)
                        ELSE writes
           /\ MANUAL_REVIEW' = MANUAL_REVIEW \o r.review
           /\ changed_count' = changed_count + (IF r.stats.changed THEN 1 ELSE 0)
           /\ release_count' = release_count + (IF r.stats.release THEN 1 ELSE 0)
           /\ total_protections' = total_protections + r.stats.protections
    /\ pos' = pos + 1
    /\ UNCHANGED <<argv, dry_run, tree0, pc, files, fileVars, convertVars>>

\* lines 345-358: the summary, the review list, the header of the renames
Summary ==
    /\ pc = "loop"
    /\ pos > Len(files)
    /\ stdout' = stdout
         \o << <<"=== Summary ===">>,
               <<"Files processed:", Len(files)>>,
               <<"Files changed:", changed_count>>,
               <<"Release files (links only):", release_count>>,
               <<"Total protections applied:", total_protections>> >>
         \o (IF MANUAL_REVIEW # <<>>
             THEN << <<"=== Manual Review Required", Len(MANUAL_REVIEW)>> >>
                  \o ReviewReport(MANUAL_REVIEW, 1)
             ELSE <<>>)
         \o << <<"=== File Renames ===">> >>
    /\ pc' = "renames"
    /\ pos' = 1
    /\ UNCHANGED <<argv, dry_run, fs, tree0, files, changed_count, release_count,
                   total_protections, writes, MANUAL_REVIEW, fileVars, convertVars>>

\* lines 367-379: one entry of file_renames
RenameFile ==
    /\ pc = "renames"
    /\ pos <= Len(file_renames)
    /\ LET old_path == file_renames[pos][1]
           new_path == file_renames[pos][2]
       IN  IF exists(fs, old_path)
           THEN IF dry_run
                THEN /\ stdout' = Append(stdout, <<"Would rename:", old_path, new_path>>)
                     /\ UNCHANGED <<fs, writes>>
                ELSE /\ fs' = rename_file(fs, old_path, new_path)
                     /\ writes' = Append(writes, <<"rename", old_path, new_path>>)
                     /\ stdout' = Append(stdout, <<"Renamed:", old_path, new_path>>)
           ELSE /\ stdout' = Append(stdout,
                                IF exists(fs, new_path)
                                THEN <<"Already renamed:", new_path>>
                                ELSE <<"MISSING", old_path>>)
                /\ UNCHANGED <<fs, writes>>
    /\ pos' = pos + 1
    /\ UNCHANGED <<argv, dry_run, tree0, pc, files, changed_count, release_count,
                   total_protections, MANUAL_REVIEW, fileVars, convertVars>>

\* lines 381-399: docs.json and the closing line of a dry run
UpdateDocsJson ==
    /\ pc = "renames"
    /\ pos > Len(file_renames)
    /\ LET docs_json_content == fs[docs_json_path]
           new_docs_json == Replace(docs_json_content,
                                    "docs/concepts/cdktf-architecture",
                                    "docs/concepts/cdktn-architecture")
           update == exists(fs, docs_json_path) /\ new_docs_json # docs_json_content
           done   == IF dry_run
                     THEN << <<"Dry run complete. No files were modified.">> >>
                     ELSE <<>>
       IN  IF update
           THEN IF dry_run
                THEN /\ stdout' = Append(stdout, <<"Would update docs.json">>) \o done
                     /\ UNCHANGED <<fs, writes>>
                ELSE /\ fs' = write_file(fs, docs_json_path, new_docs_json)
                     /\ writes' = Append(writes, <<"write", docs_json_path,
                                                   docs_json_content, new_docs_json>>)
                     /\ stdout' = Append(stdout, <<"Updated docs.json">>) \o done
           ELSE /\ stdout' = stdout \o done
                /\ UNCHANGED <<fs, writes>>
    /\ pc' = "done"
    /\ UNCHANGED <<argv, dry_run, tree0, files, pos, changed_count, release_count,
                   total_protections, MANUAL_REVIEW, fileVars, convertVars>>

Next == Start \/ SkipMissing \/ ProcessFile \/ Summary \/ RenameFile \/ UpdateDocsJson

Spec == Init /\ [][Next]_vars

(***************************************************************************)
(* convert_codetabs of convert.py (lines 136-175).                         *)
(***************************************************************************)
\* a code fence marker: three grave accents
FENCE == BQ \o BQ \o BQ

\* LANG_TITLES: <<language identifier, display title>>
LANG_TITLES ==
    << <<"ts", "TypeScript">>, <<"typescript", "TypeScript">>,
       <<"python", "Python">>, <<"java", "Java">>, <<"csharp", "C#">>,
       <<"go", "Go">>, <<"shell-session", "Shell">>, <<"shell", "Shell">>,
       <<"bash", "Bash">>, <<"json", "JSON">>, <<"hcl", "HCL">>,
       <<"terraform", "HCL">> >>

\* LANG_TITLES.get(lang, "")
LangTitle(lang) ==
    LET c == {k \in 1..Len(LANG_TITLES) : LANG_TITLES[k][1] = lang}
    IN  IF c = {} THEN "" ELSE LANG_TITLES[CHOOSE k \in c : TRUE][2]

\* re.match(r"^(```)([\w-]+)\s*$", line).group(2), "" when the line does not
\* match: [\w-] and \s share no character, so the greedy runs never backtrack
FenceLang(line) ==
    IF ~StartsAt(line, 1, FENCE) THEN ""
    ELSE LET e == RunEnd(line, Len(FENCE) + 1, WordChar \cup {"-"})
         IN  IF e > Len(FENCE) + 1 /\ RunEnd(line, e, SpaceChar) = Len(line) + 1
             THEN SubSeq(line, Len(FENCE) + 1, e - 1)
             ELSE ""

\* line.startswith("```") and line.strip() == "```"
IsFenceClose(line) == StartsAt(line, 1, FENCE) /\ Strip(line) = FENCE

\* the fence line titled with its language identifier when LANG_TITLES has no
\* title for it
TitledFence_any_language(line) ==
    LET lang  == FenceLang(line)
        title == LangTitle(lang)
    IN  FENCE \o lang \o " " \o (IF title # "" THEN title ELSE lang)

\* the fence line with its title: f"```{lang} {title}", the line itself for a
\* language without a title
TitledFence(line) ==
    LET lang  == FenceLang(line)
        title == LangTitle(lang)
    IN  IF title # "" THEN FENCE \o lang \o " " \o title ELSE line

MaxLines == 3

TabLines ==
    {"<CodeTabs>", "</CodeTabs>", "<CodeGroup></CodeGroup>", FENCE \o "ts",
     FENCE \o "python ", FENCE \o "mdx", FENCE, "x = 1"}

TabDocs == {Join(ls, "\n") : ls \in SeqsUpTo(TabLines, MaxLines)}

TabsInit ==
    /\ source \in TabDocs
    /\ cstage = "tabs"
    /\ lines = <<>> /\ idx = 0 /\ result = <<>> /\ output = ""
    /\ in_codegroup = FALSE /\ in_code_block = FALSE
    /\ MANUAL_REVIEW = <<>>
    /\ MainIdle
    /\ FileIdle

\* lines 139-148: the two tag renames, the flags, content.split("\n")
RenameTags ==
    /\ cstage = "tabs"
    /\ lines' = Split(Replace(Replace(source, "<CodeTabs>", "<CodeGroup>"),
                              "</CodeTabs>", "</CodeGroup>"), "\n")
    /\ idx' = 1
    /\ result' = <<>>
    /\ in_codegroup' = FALSE
    /\ in_code_block' = FALSE
    /\ cstage' = "walk"
    /\ UNCHANGED <<source, output, MANUAL_REVIEW, mainVars, fileVars>>

\* lines 149-152: a line holding the opening tag
GroupOpen ==
    /\ cstage = "walk" /\ idx <= Len(lines)
    /\ Contains(lines[idx], "<CodeGroup>")
    /\ in_codegroup' = TRUE
    /\ result' = Append(result, lines[idx])
    /\ idx' = idx + 1
    /\ UNCHANGED <<cstage, source, lines, in_code_block, output, MANUAL_REVIEW,
                   mainVars, fileVars>>

\* lines 153-156: a line holding the closing tag and no opening tag
GroupClose ==
    /\ cstage = "walk" /\ idx <= Len(lines)
    /\ ~Contains(lines[idx], "<CodeGroup>")
    /\ Contains(lines[idx], "</CodeGroup>")
    /\ in_codegroup' = FALSE
    /\ result' = Append(result, lines[idx])
    /\ idx' = idx + 1
    /\ UNCHANGED <<cstage, source, lines, in_code_block, output, MANUAL_REVIEW,
                   mainVars, fileVars>>

\* lines 158-168: an opening fence with a language, inside a group and outside
\* a code block
FenceOpen ==
    /\ cstage = "walk" /\ idx <= Len(lines)
    /\ ~Contains(lines[idx], "<CodeGroup>")
    /\ ~Contains(lines[idx], "</CodeGroup>")
    /\ in_codegroup /\ ~in_code_block
    /\ FenceLang(lines[idx]) # ""
    /\ in_code_block' = TRUE
    /\ result' = Append(result, TitledFence(lines[idx]))
    /\ idx' = idx + 1
    /\ UNCHANGED <<cstage, source, lines, in_codegroup, output, MANUAL_REVIEW,
                   mainVars, fileVars>>

\* lines 170-173: every other line; a bare fence ends the code block
PassLine ==
    /\ cstage = "walk" /\ idx <= Len(lines)
    /\ ~Contains(lines[idx], "<CodeGroup>")
    /\ ~Contains(lines[idx], "</CodeGroup>")
    /\ ~(in_codegroup /\ ~in_code_block /\ FenceLang(lines[idx]) # "")
    /\ in_code_block' = IF in_code_block /\ IsFenceClose(lines[idx])
                        THEN FALSE ELSE in_code_block
    /\ result' = Append(result, lines[idx])
    /\ idx' = idx + 1
    /\ UNCHANGED <<cstage, source, lines, in_codegroup, output, MANUAL_REVIEW,
                   mainVars, fileVars>>

\* line 175: return "\n".join(result)
TabsReturn ==
    /\ cstage = "walk" /\ idx > Len(lines)
    /\ output' = Join(result, "\n")
    /\ cstage' = "returned"
    /\ UNCHANGED <<source, lines, idx, in_codegroup, in_code_block, result,
                   MANUAL_REVIEW, mainVars, fileVars>>

TabsNext == RenameTags \/ GroupOpen \/ GroupClose \/ FenceOpen \/ PassLine \/ TabsReturn

TabsSpec == TabsInit /\ [][TabsNext]_vars

(***************************************************************************)
(* convert_arrow_callouts (lines 187-251) and convert_blockquote_callouts  *)
(* (lines 254-281) of convert.py.                                          *)
(***************************************************************************)
\* group(1) of the tail  :?\s*(.+)$  (colon = TRUE) or  \s*(.+)$  of a callout
\* pattern matched from position r of line, "" when it does not match.  The
\* greedy colon and space run give back one character when nothing is left
\* for (.+).
TailBody(line, r, colon) ==
    LET c == IF colon /\ CharAt(line, r) = ":" THEN r + 1 ELSE r
        w == RunEnd(line, c, SpaceChar)
    IN  IF w <= Len(line) THEN From(line, w)
        ELSE IF w > r THEN From(line, Len(line))
        ELSE ""

\* group(1) of  ^prefix\s*\*\*label:?\*\*:?\s*(.+)$  on line, "" for no match
LabelBody(line, prefix, label) ==
    IF ~StartsAt(line, 1, prefix) THEN ""
    ELSE LET a == RunEnd(line, Len(prefix) + 1, SpaceChar)
             q == a + 2 + Len(label)
             e == IF CharAt(line, q) = ":" THEN q + 1 ELSE q
         IN  IF StartsAt(line, a, "**" \o label) /\ StartsAt(line, e, "**")
             THEN TailBody(line, e + 2, TRUE)
             ELSE ""

\* group(1) of  ^prefix\s*(.+)$  on line, "" for no match
PlainBody(line, prefix) ==
    IF StartsAt(line, 1, prefix) THEN TailBody(line, Len(prefix) + 1, FALSE) ELSE ""

\* the texts Hands[\s-][Oo]n matches
HandsOn == {"Hands" \o sep \o o \o "n" : sep \in SpaceChar \cup {"-"}, o \in {"O", "o"}}

\* group(1) of the first label of the set that matches, "" when none does
AnyLabelBody(line, prefix, labels) ==
    LET c == {l \in labels : LabelBody(line, prefix, l) # ""}
    IN  IF c = {} THEN "" ELSE LabelBody(line, prefix, CHOOSE l \in c : TRUE)

\* the arrow table with the Important label mapped to Note
ARROW_RULES_important_note ==
    << <<"~>",  {"Warning"},   "Warning">>,
       <<"~>",  {"Important"}, "Note">>,
       <<"~>",  {"Note"},      "Note">>,
       <<"->",  {"Note"},      "Note">>,
       <<"+->", {"Note"},      "Tip">>,
       <<"+->", {},            "Tip">> >>

\* the re.match tests of convert_arrow_callouts in order:
\* <<prefix, labels ({} for the pattern without a label), component>>
ARROW_RULES ==
    << <<"~>",  {"Warning"},   "Warning">>,
       <<"~>",  {"Important"}, "Warning">>,
       <<"~>",  {"Note"},      "Note">>,
       <<"->",  {"Note"},      "Note">>,
       <<"+->", {"Note"},      "Tip">>,
       <<"+->", {},            "Tip">> >>

\* the re.match tests of convert_blockquote_callouts in order
BLOCKQUOTE_RULES ==
    << <<">", {"Note"}, "Note">>,
       <<">", HandsOn,  "Tip">> >>

\* m.group(1) for one test
RuleBody(line, rule) ==
    IF rule[2] = {} THEN PlainBody(line, rule[1])
    ELSE AnyLabelBody(line, rule[1], rule[2])

\* f"<{component}>{m.group(1)}</{component}>"
Component(name, body) == "<" \o name \o ">" \o body \o "</" \o name \o ">"

\* one iteration of either loop: the component of the first test that matches,
\* the line itself when none does
RECURSIVE ConvertLine(_, _, _)
ConvertLine(line, rules, k) ==
    IF k > Len(rules) THEN line
    ELSE IF RuleBody(line, rules[k]) # ""
         THEN Component(rules[k][3], RuleBody(line, rules[k]))
    ELSE ConvertLine(line, rules, k + 1)

MaxCalloutLines == 2

CalloutLines ==
    {"~> **Warning:** Do not do X", "~> **Important**: x", "~> **Note:** x",
     "~> **Note:** ", "->**Note**: x", "-> **Warning:** x",
     "+-> **Note:** x", "+-> **Warning:** x", "+-> x",
     "> **Note:** x", "> **Hands-on:** Try the tutorial", "> **Hands On:** x",
     "> **Warning:** x", "> quoted", "text"}

CalloutDocs == {Join(ls, "\n") : ls \in SeqsUpTo(CalloutLines, MaxCalloutLines)}

CalloutInit ==
    /\ source \in CalloutDocs
    /\ cstage = "arrow"
    /\ lines = <<>> /\ idx = 0 /\ result = <<>> /\ output = ""
    /\ in_codegroup = FALSE /\ in_code_block = FALSE
    /\ MANUAL_REVIEW = <<>>
    /\ MainIdle
    /\ FileIdle

\* lines 199-201: lines = content.split("\n"), result = [], i = 0
ArrowSplit ==
    /\ cstage = "arrow"
    /\ lines' = Split(source, "\n")
    /\ result' = <<>>
    /\ idx' = 1
    /\ cstage' = "arrow_loop"
    /\ UNCHANGED <<source, output, in_codegroup, in_code_block, MANUAL_REVIEW,
                   mainVars, fileVars>>

\* lines 202-249: one iteration of the while loop
ArrowLine ==
    /\ cstage = "arrow_loop" /\ idx <= Len(lines)
    /\ result' = Append(result, ConvertLine(lines[idx], ARROW_RULES, 1))
    /\ idx' = idx + 1
    /\ UNCHANGED <<cstage, source, lines, output, in_codegroup, in_code_block,
                   MANUAL_REVIEW, mainVars, fileVars>>

\* line 251 and lines 263-264: the arrow pass returns "\n".join(result), the
\* blockquote pass splits what it is given
BlockquoteSplit ==
    /\ cstage = "arrow_loop" /\ idx > Len(lines)
    /\ lines' = Split(Join(result, "\n"), "\n")
    /\ result' = <<>>
    /\ idx' = 1
    /\ cstage' = "blockquote_loop"
    /\ UNCHANGED <<source, output, in_codegroup, in_code_block, MANUAL_REVIEW,
                   mainVars, fileVars>>

\* lines 266-279: one iteration of the for loop
BlockquoteLine ==
    /\ cstage = "blockquote_loop" /\ idx <= Len(lines)
    /\ result' = Append(result, ConvertLine(lines[idx], BLOCKQUOTE_RULES, 1))
    /\ idx' = idx + 1
    /\ UNCHANGED <<cstage, source, lines, output, in_codegroup, in_code_block,
                   MANUAL_REVIEW, mainVars, fileVars>>

\* line 281: return "\n".join(result)
CalloutReturn ==
    /\ cstage = "blockquote_loop" /\ idx > Len(lines)
    /\ output' = Join(result, "\n")
    /\ cstage' = "callouts_done"
    /\ UNCHANGED <<source, lines, idx, result, in_codegroup, in_code_block,
                   MANUAL_REVIEW, mainVars, fileVars>>

CalloutNext ==
    ArrowSplit \/ ArrowLine \/ BlockquoteSplit \/ BlockquoteLine \/ CalloutReturn

CalloutSpec == CalloutInit /\ [][CalloutNext]_vars

(***************************************************************************)
(* transform_frontmatter (lines 100-107) and remove_duplicate_h1 (lines    *)
(* 110-121) of convert.py.                                                 *)
(***************************************************************************)
\* the start of group 2 of
\*   ^(---\n(?:.*\n)*?)page_title:\s*(.+?)(\n(?:.*\n)*?---)
\* when "page_title:" is matched at p, 0 when the rest does not match there.
\* The greedy \s* (it crosses line ends) gives characters back until group 2
\* has a character that is no line end; group 2 then runs to the end of its
\* line, and a line starting with --- must follow.
TitleValueStart(text, p) ==
    LET q == p + Len("page_title:")
        w == RunEnd(text, q, SpaceChar)
        c == {g \in q..w :
                /\ CharAt(text, g) \notin {"", "\n"}
                /\ LET e == Find(text, "\n", g)
                   IN  e > 0 /\ Find(text, "\n---", e) > 0}
    IN  IF c = {} THEN 0 ELSE CHOOSE g \in c : \A h \in c : g >= h

\* transform_frontmatter(content): re.sub(..., r"\1title: \2\3", content,
\* count=1).  ^ is the start of the text; group 1 is the first line "---" and
\* as few whole lines as the match needs.
transform_frontmatter(text) ==
    IF ~StartsAt(text, 1, "---\n") THEN text
    ELSE LET c == {p \in 5..Len(text) :
                     /\ CharAt(text, p - 1) = "\n"
                     /\ StartsAt(text, p, "page_title:")
                     /\ TitleValueStart(text, p) > 0}
         IN  IF c = {} THEN text
             ELSE LET p == Min(c)
                  IN  SubSeq(text, 1, p - 1) \o "title: "
                         \o From(text, TitleValueStart(text, p))

\* the end of the match of  (---\n)\n*# .+\n\n?  that starts at p, 0 when the
\* pattern does not match there
HeadingMatchEnd(text, p) ==
    IF ~StartsAt(text, p, "---\n") THEN 0
    ELSE LET n == RunEnd(text, p + 4, {"\n"})
             e == Find(text, "\n", n + 2)
         IN  IF StartsAt(text, n, "# ") /\ e > n + 2
             THEN (IF CharAt(text, e + 1) = "\n" THEN e + 2 ELSE e + 1)
             ELSE 0

\* remove_duplicate_h1(content): re.sub(..., r"\1\n", content, count=1), the
\* leftmost match anywhere in the text
remove_duplicate_h1(text) ==
    LET c == {p \in 1..Len(text) : HeadingMatchEnd(text, p) > 0}
    IN  IF c = {} THEN text
        ELSE LET p == Min(c)
             IN  SubSeq(text, 1, p + 3) \o "\n"
                    \o From(text, HeadingMatchEnd(text, p))

MaxBodyLines == 3

\* how a document starts: no frontmatter, or a frontmatter block
FrontHeads ==
    {"", "---\npage_title: Foo\n---\n", "---\ntitle: Foo\n---\n",
     "---\npage_title: Foo\ndescription: d\n---\n",
     "---\ndescription: d\npage_title:  Foo\n---\n"}

BodyLines == {"\n", "# Foo\n", "text\n", "---\n", "## Sub\n"}

FrontDocs ==
    {h \o Concat(b) : h \in FrontHeads,
                      b \in {<<>>} \cup SeqsUpTo(BodyLines, MaxBodyLines)}

FrontInit ==
    /\ source \in FrontDocs
    /\ cstage = "frontmatter"
    /\ output = source
    /\ lines = <<>> /\ idx = 0 /\ result = <<>>
    /\ in_codegroup = FALSE /\ in_code_block = FALSE
    /\ MANUAL_REVIEW = <<>>
    /\ MainIdle
    /\ FileIdle

\* convert_file line 304: content = transform_frontmatter(content)
\* (line 305, add_sidebar_title, returns the content as it is for a file with
\* no entry in the nav data, the case modelled here; with an entry it only
\* inserts a sidebarTitle line after the title line)
TransformFrontmatter ==
    /\ cstage = "frontmatter"
    /\ output' = transform_frontmatter(output)
    /\ cstage' = "titled"
    /\ UNCHANGED <<source, lines, idx, result, in_codegroup, in_code_block,
                   MANUAL_REVIEW, mainVars, fileVars>>

\* convert_file line 306: content = remove_duplicate_h1(content)
RemoveDuplicateH1 ==
    /\ cstage = "titled"
    /\ output' = remove_duplicate_h1(output)
    /\ cstage' = "deduplicated"
    /\ UNCHANGED <<source, lines, idx, result, in_codegroup, in_code_block,
                   MANUAL_REVIEW, mainVars, fileVars>>

FrontNext == TransformFrontmatter \/ RemoveDuplicateH1

FrontSpec == FrontInit /\ [][FrontNext]_vars

(***************************************************************************)
(* Properties of protect / rename / restore.                               *)
(***************************************************************************)
release == is_release_file(filepath)

\* C1: restore(protect(d)) with no transform in between is d,
\* for every document d, also one that holds sentinel-shaped text.
RoundTripIdentity == stage = "roundtrip" => content = original

\* C8: after protect, rename_links, rename_content and restore
\* no sentinel-shaped substring <<PROT_dddd>> is left in the output.
NoProtectionLeak == stage = "restored" => LeftoverSentinels(content) = <<>>

\* C3: process_file on the output of process_file changes nothing:
\* the second pass reports changed = false, for standard and release documents.
Idempotence == (stage = "restored" /\ run = 2) => content = original

\* The document d cut at the places protect masked.  m is protect's output
\* for d; the walk follows m and d together.  A sentinel-shaped token of m
\* that d holds literally at that place is document text; any other one marks
\* a protected match, whose text is read from d.  The result alternates
\* <<"gap", text>> and <<"protected", text>>.
RECURSIVE AlignFrom(_, _, _, _, _, _)
AlignFrom(d, j, m, i, rs, gap) ==
    LET p == Search(m, SentinelShape, i)
    IN  IF p = 0 THEN << <<"gap", gap \o From(m, i)>> >>
        ELSE LET e   == MatchEnd(m, p, SentinelShape, 1)
                 tok == SubSeq(m, p, e - 1)
                 pre == SubSeq(m, i, p - 1)
                 jd  == j + (p - i)
                 ks  == {k \in 1..Len(rs) : rs[k][1] = tok /\ StartsAt(d, jd, rs[k][2])}
             IN  IF StartsAt(d, jd, tok) \/ ks = {}
                 THEN AlignFrom(d, jd + Len(tok), m, e, rs, gap \o pre \o tok)
                 ELSE LET k == CHOOSE x \in ks :
                                  \A y \in ks : Len(rs[x][2]) >= Len(rs[y][2])
                      IN  << <<"gap", gap \o pre>>, <<"protected", rs[k][2]>> >>
                          \o AlignFrom(d, jd + Len(rs[k][2]), m, e, rs, "")

ProtectedCut(d) == LET p == protect(d) IN AlignFrom(d, 1, p.content, 1, p.restorations, "")

\* each gap rewritten on its own by the rename and restore steps, each
\* protected match kept as it is
RECURSIVE KeepProtected(_, _, _, _)
KeepProtected(cut, k, rs, rel) ==
    IF k > Len(cut) THEN ""
    ELSE (IF cut[k][1] = "protected" THEN cut[k][2]
          ELSE restore(content_rewrite(rename_links(cut[k][2]), rel), rs))
         \o KeepProtected(cut, k + 1, rs, rel)

\* C2: every substring a PROTECTED_PATTERNS rule matched during protect stands
\* unchanged in the final output, between the rewritten texts that were before
\* and after it, whatever rename rules fired around it.
ProtectionInvariant ==
    stage = "restored" =>
        content = KeepProtected(ProtectedCut(original), 1, restorations, release)

\* C2 witness: a standard document with two different protected matches and
\* renamed text around them
ProtectionInvariantWitness ==
    /\ stage = "restored" /\ ~release
    /\ Len(restorations) >= 2
    /\ restorations[1][2] # restorations[2][2]
    /\ Contains(original, "cdktf ")
    /\ Contains(content, "cdktn ")
    /\ content # original

\* the import lines of the supported languages and the lines they become
ImportTargets ==
    { <<"import com.hashicorp.cdktf.App;",        "import io.cdktn.cdktn.App;">>,
      <<"using HashiCorp.Cdktf;",                 "using Io.Cdktn;">>,
      <<"from cdktf_cdktf_provider_aws import x", "from cdktn_provider_aws import x">>,
      <<"@cdktf/provider-aws",                    "@cdktn/provider-aws">> }

HasNamespacedForm(ls) == \E k \in 1..Len(ls) : \E t \in ImportTargets : ls[k] = t[1]

HasBareAcronym(ls) == \E k \in 1..Len(ls) : ls[k] = "CDKTF"

\* C5: in a standard document with a namespaced import form and a bare
\* acronym, every namespaced line comes out as its namespaced target and every
\* bare acronym as the target acronym; no later rule has rewritten what an
\* earlier rule produced.
OrderingSensitivity ==
    LET inl  == Split(original, "\n")
        outl == Split(content, "\n")
    IN  (stage = "restored" /\ ~release /\ HasNamespacedForm(inl) /\ HasBareAcronym(inl))
        => /\ Len(outl) = Len(inl)
           /\ \A k \in 1..Len(inl) :
                /\ \A t \in ImportTargets : inl[k] = t[1] => outl[k] = t[2]
                /\ inl[k] = "CDKTF" => outl[k] = "CDKTN"

\* C5 witness: a Java import line followed by a bare acronym, both rewritten
OrderingSensitivityWitness ==
    /\ stage = "restored" /\ ~release
    /\ original = "import com.hashicorp.cdktf.App;\nCDKTF\n"
    /\ content = "import io.cdktn.cdktn.App;\nCDKTN\n"

\* C6: a release document gets the link rewrites only: no internal link prefix
\* and no source-repository reference is left, each became its target, every
\* occurrence of a brand token outside a link prefix is still there, and no
\* renamed brand token has appeared.
ReleaseLinksOnly ==
    (stage = "restored" /\ release) =>
        /\ Count(content, "](/terraform/cdktf/") = 0
        /\ Count(content, "hashicorp/terraform-cdk") = 0
        /\ Count(content, "](/docs/")
              = Count(original, "](/docs/") + Count(original, "](/terraform/cdktf/")
        /\ Count(content, "open-constructs/cdk-terrain")
              = Count(original, "open-constructs/cdk-terrain")
                + Count(original, "hashicorp/terraform-cdk")
        /\ Count(content, "CDKTF") >= Count(original, "CDKTF")
        /\ Count(content, "CDK for Terraform") >= Count(original, "CDK for Terraform")
        /\ Count(content, "cdktf")
              >= Count(original, "cdktf") - Count(original, "](/terraform/cdktf/")
        /\ Count(content, "CDKTN") = Count(original, "CDKTN")
        /\ Count(content, "cdktn") = Count(original, "cdktn")
        /\ Count(content, "CDK Terrain") = Count(original, "CDK Terrain")

\* C6 witness: a release document whose link was rewritten and whose brand
\* tokens stayed
ReleaseLinksOnlyWitness ==
    /\ stage = "restored" /\ release /\ run = 1
    /\ Contains(original, "](/terraform/cdktf/")
    /\ Contains(original, "hashicorp/terraform-cdk")
    /\ Contains(original, "CDKTF ")
    /\ Contains(content, "](/docs/")
    /\ Contains(content, "CDKTF ")

\* the pairs of rs replayed on text in the order given: order[1] first
RECURSIVE ReplayFrom(_, _, _, _)
ReplayFrom(text, rs, order, k) ==
    IF k > Len(rs) THEN text
    ELSE ReplayFrom(Replace(text, rs[order[k]][1], rs[order[k]][2]), rs, order, k + 1)

Replay(text, rs, order) == ReplayFrom(text, rs, order, 1)

\* C13: on the text protect returned, and on that text after the rename
\* steps, replaying the restorations in any order gives the text restore
\* gives; the sentinels are pairwise distinct, none is a part of another, and
\* no original holds sentinel-shaped text.
RestoreOrderIndependent ==
    stage \in {"protected", "renamed"} =>
        LET n == Len(restorations)
        IN  /\ \A order \in Permutations(1..n) :
                  Replay(content, restorations, order) = restore(content, restorations)
            /\ \A a \in 1..n : \A b \in 1..n :
                  a # b => /\ restorations[a][1] # restorations[b][1]
                           /\ ~Contains(restorations[a][1], restorations[b][1])
            /\ \A a \in 1..n : Search(restorations[a][2], SentinelShape, 1) = 0

\* C13 witness: three protected matches, two of them different, replayed in
\* insertion order on the renamed text with the result of restore
RestoreOrderIndependentWitness ==
    /\ stage = "renamed"
    /\ Len(restorations) = 3
    /\ restorations[1][2] # restorations[2][2]
    /\ Replay(content, restorations, [k \in 1..3 |-> k]) = restore(content, restorations)
    /\ restore(content, restorations) # content

(***************************************************************************)
(* Properties of main.                                                     *)
(***************************************************************************)
\* the index of the summary header in stdout, 0 when it was not printed
SummaryAt ==
    LET c == {k \in 1..Len(stdout) : stdout[k][1] = "=== Summary ==="}
    IN  IF c = {} THEN 0 ELSE Min(c)

\* what the loop over files printed about each entry, in order
LoopLines ==
    SelectSeq(SubSeq(stdout, 1, SummaryAt - 1),
              LAMBDA e : e[1] \in {"MISSING", "Processing"})

\* stdout holds the error line of process_file for path with these tokens
ErrorReported(path, tokens) ==
    \E k \in 1..Len(stdout) :
        /\ stdout[k][1] = "ERROR: Leftover sentinels in"
        /\ stdout[k][2] = path
        /\ stdout[k][3] = tokens

\* C9: when main has finished over a non-empty list, the loop has reported
\* every listed file in order, a file that does not exist as missing and every
\* other one as processed; a file whose output holds leftover sentinels has an
\* error line with its path and the leftover tokens; the summary follows,
\* counting every listed file.
BatchNotAborted ==
    (pc = "done" /\ files # <<>>) =>
        /\ SummaryAt > 0
        /\ stdout[SummaryAt + 1] = <<"Files processed:", Len(files)>>
        /\ Len(LoopLines) = Len(files)
        /\ \A k \in 1..Len(files) :
              /\ LoopLines[k][2] = files[k]
              /\ LoopLines[k][1] = "MISSING" <=> ~exists(tree0, files[k])
              /\ (/\ exists(tree0, files[k])
                  /\ dry_run \/ \A j \in 1..(k - 1) : files[j] # files[k])
                 => LET tokens == process_file(files[k], tree0[files[k]],
                                               dry_run).sentinel_check
                    IN  tokens # <<>> => ErrorReported(files[k], tokens)

\* C9 witness: the first listed file is missing, the second leaves a sentinel
\* behind; both were reported and the summary was printed
BatchNotAbortedWitness ==
    /\ pc = "done"
    /\ Len(files) = 2
    /\ ~exists(tree0, files[1])
    /\ exists(tree0, files[2])
    /\ stdout[2] = <<"MISSING", files[1]>>
    /\ stdout[3][1] = "Processing"
    /\ ErrorReported(files[2], <<"<<PROT_0001>>">>)
    /\ SummaryAt > 0

\* C10: a dry run leaves the file tree as it found it: nothing is written,
\* renamed or updated; outside a dry run every write of a document replaces
\* its content by a different one.
DryRunWritesNothing ==
    pc # "idle" =>
        /\ dry_run => (fs = tree0 /\ writes = <<>>)
        /\ \A k \in 1..Len(writes) :
              writes[k][1] = "write" => writes[k][3] # writes[k][4]

\* C10 witness: a finished dry run over a tree with a document that changes,
\* a companion file to rename and a docs.json to update
DryRunWritesNothingWitness ==
    /\ pc = "done"
    /\ dry_run
    /\ changed_count > 0
    /\ exists(tree0, ArchOld)
    /\ exists(tree0, docs_json_path)
    /\ tree0[docs_json_path] = DocsJsonOld
    /\ fs = tree0

(***************************************************************************)
(* Properties of convert_codetabs.                                         *)
(***************************************************************************)
\* the last index in line where lit starts, 0 if none
LastAt(line, lit) ==
    LET c == {i \in 1..Len(line) : StartsAt(line, i, lit)}
    IN  IF c = {} THEN 0 ELSE CHOOSE x \in c : \A y \in c : x >= y

\* line k of ls lies inside a tab-group container: the last container marker
\* before line k, in reading order, is an opening one
RECURSIVE InsideContainer(_, _)
InsideContainer(ls, k) ==
    IF k <= 1 THEN FALSE
    ELSE LET lo == LastAt(ls[k - 1], "<CodeGroup>")
             lc == LastAt(ls[k - 1], "</CodeGroup>")
         IN  IF lo = 0 /\ lc = 0 THEN InsideContainer(ls, k - 1)
             ELSE lo > lc

\* C4: convert_codetabs appends a title to a fence line only when
\* the line lies inside a tab-group container; a fence line outside every
\* container is never modified.
FenceTitleScope ==
    cstage = "returned" =>
        \A k \in 1..Len(lines) :
            result[k] # lines[k] => InsideContainer(lines, k)

\* one iteration of the walk over lines[idx]: what it may and must do with
\* the line and with in_code_block
WalkStepFrame ==
    LET line  == lines[idx]
        out   == result'[idx]
        lang  == FenceLang(line)
        title == LangTitle(lang)
        opens == in_codegroup /\ ~in_code_block /\ lang # ""
    IN  /\ Len(result') = idx
        /\ out # line => (opens /\ title # "")
        /\ (opens /\ title # "") => out = FENCE \o lang \o " " \o title
        /\ (opens /\ title = "") => out = line
        /\ opens => in_code_block'
        /\ (in_code_block /\ lang # "") => (out = line /\ in_code_block')
        /\ (~in_code_block /\ in_code_block') => opens
        /\ (in_code_block /\ Strip(line) = FENCE /\ StartsAt(line, 1, FENCE))
              => ~in_code_block'
        /\ (in_code_block /\ ~in_code_block')
              => (Strip(line) = FENCE /\ StartsAt(line, 1, FENCE))

\* C12: the walk of convert_codetabs returns as many lines as it was given;
\* the only lines it alters are fence-open lines with a known language met
\* inside a group and outside a fence; a fence-open line met inside a fence
\* is not retitled; in_code_block is set only by a fence-open line inside a
\* group, also one with an unknown language, which gets no title; a bare
\* fence line clears it.
FenceWalkerFrame ==
    [][/\ (cstage = "walk" /\ idx' = idx + 1) => WalkStepFrame
       /\ (cstage = "walk" /\ cstage' = "returned")
             => /\ Len(result) = Len(lines)
                /\ Len(Split(output', "\n")) = Len(Split(source, "\n"))]_vars

\* C12 witness: inside a group a TypeScript fence was titled and the Python
\* fence line met inside it was left as it is
FenceWalkerFrameWitness ==
    /\ cstage = "returned"
    /\ lines = <<"<CodeGroup>", FENCE \o "ts", FENCE \o "python ">>
    /\ result = <<"<CodeGroup>", FENCE \o "ts TypeScript", FENCE \o "python ">>
    /\ in_code_block

(***************************************************************************)
(* Properties of the callout passes.                                       *)
(***************************************************************************)
CalloutPrefixes == {"~>", "->", "+->", ">"}

CalloutLabels == {"Warning", "Important", "Note"} \cup HandsOn

\* the line is one the two passes recognise
Recognised(line) ==
    \/ \E k \in 1..Len(ARROW_RULES) : RuleBody(line, ARROW_RULES[k]) # ""
    \/ \E k \in 1..Len(BLOCKQUOTE_RULES) : RuleBody(line, BLOCKQUOTE_RULES[k]) # ""

\* the prefix the line starts with
PrefixOf(line) == CHOOSE p \in CalloutPrefixes : StartsAt(line, 1, p)

\* the label written after the prefix, "" when there is none
LabelOf(line) ==
    LET c == {l \in CalloutLabels : LabelBody(line, PrefixOf(line), l) # ""}
    IN  IF c = {} THEN "" ELSE CHOOSE l \in c : TRUE

\* the text after the prefix and the label
BodyOf(line) ==
    IF LabelOf(line) = "" THEN PlainBody(line, PrefixOf(line))
    ELSE LabelBody(line, PrefixOf(line), LabelOf(line))

\* the severity the label stands for; Tip for a line without a label
SeverityOf(label) ==
    IF label \in {"Warning", "Important"} THEN "Warning"
    ELSE IF label = "Note" THEN "Note"
    ELSE "Tip"

\* the lines of the document the two passes were given
SourceLines == Split(source, "\n")

\* C7, severity by label alone: every recognised line becomes one component line that
\* carries the body without the label, Warning for a Warning or Important
\* label, Note for a Note label, Tip for a Hands-on label or no label.
CalloutSeverityMapping ==
    cstage = "callouts_done" =>
        /\ Len(result) = Len(SourceLines)
        /\ \A k \in 1..Len(SourceLines) :
              Recognised(SourceLines[k]) =>
                  result[k] = Component(SeverityOf(LabelOf(SourceLines[k])),
                                        BodyOf(SourceLines[k]))

\* what a recognised line becomes: after the tip prefix +-> always a Tip, a
\* Note label removed and any other label kept in the body; after the other
\* prefixes the severity of the label, the label removed
CalloutOf(line) ==
    IF PrefixOf(line) = "+->"
    THEN Component("Tip", IF LabelOf(line) = "Note"
                          THEN LabelBody(line, "+->", "Note")
                          ELSE PlainBody(line, "+->"))
    ELSE Component(SeverityOf(LabelOf(line)), BodyOf(line))

\* C7, severity by prefix and label: every recognised line becomes one component line and every
\* other line stays as it is.  A Warning or Important label after ~> gives
\* Warning, a Note label after ~>, -> or > gives Note, a Hands-on label after >
\* gives Tip, each with the body alone; every line with the prefix +-> gives
\* Tip, a Note label removed, any other label left in the body.
CalloutMappingByPrefix ==
    cstage = "callouts_done" =>
        /\ Len(result) = Len(SourceLines)
        /\ \A k \in 1..Len(SourceLines) :
              result[k] = IF Recognised(SourceLines[k])
                          THEN CalloutOf(SourceLines[k])
                          ELSE SourceLines[k]

\* C7 witness: the two examples of the mapping beside a +-> line with a Note
\* label
CalloutMappingWitness ==
    /\ cstage = "callouts_done"
    /\ \E k \in 1..Len(result) :
          /\ SourceLines[k] = "~> **Warning:** Do not do X"
          /\ result[k] = "<Warning>Do not do X</Warning>"
    /\ \E k \in 1..Len(result) :
          /\ SourceLines[k] = "+-> **Note:** x"
          /\ result[k] = "<Tip>x</Tip>"

(***************************************************************************)
(* Properties of transform_frontmatter and remove_duplicate_h1.            *)
(***************************************************************************)
\* the index of the line that closes the frontmatter block of ls, 0 when ls
\* does not start with one
FrontEnd(ls) ==
    LET c == {k \in 2..Len(ls) : ls[k] = "---"}
    IN  IF ls[1] = "---" /\ c # {} THEN Min(c) ELSE 0

\* a first-level heading line
IsH1(line) == StartsAt(line, 1, "# ") /\ Len(line) > 2

\* the index of the H1 that immediately follows the frontmatter block, blank
\* lines aside; 0 when there is none
FollowingH1(ls) ==
    LET fe == FrontEnd(ls)
        c  == {k \in (fe + 1)..Len(ls) : ls[k] # ""}
    IN  IF fe = 0 \/ c = {} THEN 0
        ELSE IF IsH1(ls[Min(c)]) THEN Min(c) ELSE 0

H1Count(ls) == Cardinality({k \in 1..Len(ls) : IsH1(ls[k])})

\* the frontmatter of ls holds the line
InFrontmatter(ls, line) == \E k \in 2..(FrontEnd(ls) - 1) : ls[k] = line

\* C11: after transform_frontmatter and remove_duplicate_h1 a document whose
\* frontmatter has page_title: Foo and no title: line has title: Foo in its
\* frontmatter, and the only heading removed is the H1 that immediately
\* follows the frontmatter block: every H1 elsewhere in the document is kept.
FrontmatterTitleAndHeading ==
    cstage = "deduplicated" =>
        LET outl == Split(output, "\n")
        IN  /\ (/\ FrontEnd(SourceLines) > 0
                /\ \E k \in 2..(FrontEnd(SourceLines) - 1) :
                      StartsAt(SourceLines[k], 1, "page_title:")
                /\ ~InFrontmatter(SourceLines, "title: Foo"))
               => InFrontmatter(outl, "title: Foo")
            /\ H1Count(outl) = H1Count(SourceLines)
                                 - (IF FollowingH1(SourceLines) > 0 THEN 1 ELSE 0)

====
